---- MODULE Spec2Model ----
(***************************************************************************)
(* Model of the <enharmonic-note-selector> custom element, the current     *)
(* component of src/src/mod.ts (class EnharmonicNoteSelector, lines        *)
(* 928-1302).                                                              *)
(*                                                                         *)
(* The element is single-threaded: every public operation, attribute       *)
(* reaction and click handler runs to completion before the next one       *)
(* starts, so each is one action.  The only code that may not run to       *)
(* completion is the do/while loop of setRandomNote, which is modelled     *)
(* one iteration at a time (pc = "random" while the loop is spinning).     *)
(*                                                                         *)
(* Note names are written in ASCII: "#" stands for the sharp glyph, "b"    *)
(* for the flat glyph, "x" for the double sharp and "bb" for the double    *)
(* flat.  Names are only ever compared with ===, so the spelling of the    *)
(* glyphs does not matter to the behaviour.                                *)
(***************************************************************************)
EXTENDS Integers, Sequences, FiniteSets, TLC

(***************************************************************************)
(* Values                                                                  *)
(***************************************************************************)

\* JavaScript null for a string-valued field or attribute (an absent attribute).
Null == "null"

\* JavaScript null for #selectedNoteInteger.
NullInt == -1

\* The result of Array.prototype.findIndex when no group matches.
NotFound == -1

\* How many pitch classes of the 12-entry catalog tables the model keeps.
NumGroups == 2

\* The full catalog (enharmonicNoteNameGroups of @musodojo/music-theory-data),
\* as listed by the component's documentation, pitch class 0 first.
FullTable ==
  << <<"C", "B#", "Dbb">>,  <<"C#", "Db">>,  <<"D", "Cx", "Ebb">>,
     <<"D#", "Eb">>,        <<"E", "Fb", "Dx">>, <<"F", "E#">>,
     <<"F#", "Gb">>,        <<"G", "Fx", "Abb">>, <<"G#", "Ab">>,
     <<"A", "Gx", "Bbb">>,  <<"A#", "Bb">>,  <<"B", "Cb", "Ax">> >>

\* The root-only catalog (enharmonicRootNoteGroups): the common root notes.
RootTable ==
  << <<"C">>, <<"C#", "Db">>, <<"D">>, <<"D#", "Eb">>, <<"E">>, <<"F">>,
     <<"F#", "Gb">>, <<"G">>, <<"G#", "Ab">>, <<"A">>, <<"A#", "Bb">>, <<"B">> >>

\* The catalogs the element is run against.  The catalog is data supplied by
\* the imported package: the documented one, and the smallest one in which the
\* root-only catalog as a whole holds exactly one note.
Catalogs ==
  { [full |-> SubSeq(FullTable, 1, NumGroups), root |-> SubSeq(RootTable, 1, NumGroups)],
    [full |-> << <<"C", "B#">> >>,             root |-> << <<"C">> >>] }

Range(seq) == { seq[i] : i \in 1..Len(seq) }

\* All spellings of a catalog (a sequence of groups).
NotesOf(groups) == UNION { Range(groups[i]) : i \in 1..Len(groups) }

\* The strings assigned to the property and written to the attribute: every
\* spelling of the documented catalog, a name that is in no catalog, and "".
Names == NotesOf(SubSeq(FullTable, 1, NumGroups)) \cup {"H", ""}

\* The values written to the boolean attribute root-notes-only.
RootValues == {"", "true"}

\* JavaScript truthiness of a string | null.
Truthy(x) == x # Null /\ x # ""

Max(a, b) == IF a >= b THEN a ELSE b

Min(S) == CHOOSE x \in S : \A y \in S : x <= y

(***************************************************************************)
(* State                                                                   *)
(***************************************************************************)
VARIABLES
  catalog,               \* the imported catalogs [full, root]
  selectedNoteName,      \* #selectedNoteName
  selectedNoteInteger,   \* #selectedNoteInteger
  attr,                  \* host attribute selected-note-name (Null: absent)
  rootAttr,              \* host attribute root-notes-only (Null: absent)
  isConnected,           \* Node.isConnected of the host
  liveListeners,         \* number of live sets of click listeners
  abortController,       \* #abortController: "null", "live" or "aborted"
  dialogOpen,            \* #dialog.open
  noteButtons,           \* children of #enharmonicNoteButtonsDiv, as groups
  dataSelected,          \* names of the rendered buttons carrying data-selected
  selectedButtonElement, \* #selectedButtonElement
  mainButtonText,        \* #mainButtonTextSpan.textContent
  mainButtonTextShown,   \* #mainButtonTextSpan.style.display # "none"
  mainButtonSlotShown,   \* #mainButtonSlot.style.display # "none"
  mainButtonNoteInteger, \* data-note-integer of #mainButton
  anchors,               \* the anchors found in the cloned template
  noteColorGroup,        \* #noteColorGroup: <<>> for null, <<g>> for an array g
  noteColor,             \* host style --note-color-i, "" when not set
  noteTextColor,         \* host style --note-text-color-i, "" when not set
  noteButtonListeners,   \* part_003: click listeners on each note button
  events,                \* events dispatched by the operation in lastOp
  handlerRuns,           \* click listeners run by the operation in lastOp
  setterDepth,           \* deepest nesting of the setter in the operation
  pc,                    \* "idle", "random" inside setRandomNote's loop, or
                         \* "threw" when the constructor threw
  lastOp,                \* the operation that ran last, with its argument
  pre                    \* the element as it was when lastOp started

vars == << catalog, selectedNoteName, selectedNoteInteger, attr, rootAttr,
           isConnected, liveListeners, abortController, dialogOpen,
           noteButtons, dataSelected, selectedButtonElement, mainButtonText,
           mainButtonTextShown, mainButtonSlotShown, mainButtonNoteInteger,
           anchors, noteColorGroup, noteColor, noteTextColor,
           noteButtonListeners, events, handlerRuns, setterDepth, pc, lastOp, pre >>

\* #selectedButtonElement = null
NoButton == [name |-> Null, live |-> FALSE]

\* The element as one record: the operators below are the methods of the
\* class, each taking the element before the call to the element after it.
\* depth is the current nesting of the selectedNoteName setter.
El ==
  [ name |-> selectedNoteName, int |-> selectedNoteInteger, attr |-> attr,
    rootAttr |-> rootAttr, isConnected |-> isConnected,
    liveListeners |-> liveListeners, abortController |-> abortController,
    dialogOpen |-> dialogOpen, noteButtons |-> noteButtons,
    dataSelected |-> dataSelected, sel |-> selectedButtonElement,
    text |-> mainButtonText, textShown |-> mainButtonTextShown,
    slotShown |-> mainButtonSlotShown, btnInt |-> mainButtonNoteInteger,
    colorGroup |-> noteColorGroup, noteColor |-> noteColor,
    noteTextColor |-> noteTextColor,
    noteButtonListeners |-> noteButtonListeners,
    events |-> <<>>, handlerRuns |-> 0, depth |-> 0, maxDepth |-> 0 ]

\* What an operation is observed against: the element when it started.
Snapshot ==
  [ name |-> selectedNoteName, int |-> selectedNoteInteger, attr |-> attr,
    rootAttr |-> rootAttr, isConnected |-> isConnected,
    dialogOpen |-> dialogOpen, text |-> mainButtonText,
    textShown |-> mainButtonTextShown, slotShown |-> mainButtonSlotShown,
    btnInt |-> mainButtonNoteInteger, noteButtons |-> noteButtons,
    dataSelected |-> dataSelected, liveListeners |-> liveListeners,
    noteColor |-> noteColor, noteTextColor |-> noteTextColor ]

\* The number of pitch classes the theme loops run over.
NumPitches == 12

PitchIntegers == 0..(NumPitches - 1)

\* #noteColorGroup = null
NoGroup == <<>>

\* What style.getPropertyValue returns for a custom property that is not set.
NoOverride == ""

\* The entries of the themes assigned: two colors, null and the empty string.
ColorEntries == << "#000000", "#ffffff", Null, "" >>

\* How many themes are assigned.
NumThemes == 3

\* The themes: 12-entry arrays going round the entries from different starts.
ColorGroups ==
  { [i \in 1..NumPitches |-> ColorEntries[((i + p) % Len(ColorEntries)) + 1]] :
      p \in 0..(NumThemes - 1) }

\* getContrastColor of @musodojo/music-theory-data: the light foreground for
\* a dark background and the dark one for a light background.
GetContrastColor(color) ==
  CASE color = "#000000" -> "white"
    [] color = "#ffffff" -> "black"
    [] OTHER -> "black"

\* this.style.setProperty(name, value) read back: null and "" remove the
\* property.
SetProperty(value) == IF Truthy(value) THEN value ELSE NoOverride

(***************************************************************************)
(* Methods of the class                                                    *)
(***************************************************************************)

\* get rootNotesOnly(): this.hasAttribute("root-notes-only")
RootNotesOnly(e) == e.rootAttr # Null

\* get #noteGroups()
NoteGroups(e) == IF RootNotesOnly(e) THEN catalog.root ELSE catalog.full

\* group.includes(note)
Includes(group, note) == \E i \in 1..Len(group) : group[i] = note

\* FindIndex with the position counted from 1 instead of 0.
FindIndexOneBased(groups, note) ==
  LET hits == { i \in 1..Len(groups) : Includes(groups[i], note) }
  IN  IF hits = {} THEN NotFound ELSE Min(hits)

\* noteGroups.findIndex((group) => group.includes(note)): 0-based index of
\* the first group holding the note, -1 when there is none.
FindIndex(groups, note) ==
  LET hits == { i \in 1..Len(groups) : Includes(groups[i], note) }
  IN  IF hits = {} THEN NotFound ELSE Min(hits) - 1

\* #populateEnharmonicNoteButtonsDiv(): one group per entry of #noteGroups,
\* one new button per note; replaceChildren() detaches every old button, so
\* no rendered button carries data-selected and a button #selectedButtonElement
\* refers to is no longer in the list.
PopulateEnharmonicNoteButtonsDiv(e) ==
  [e EXCEPT !.noteButtons = NoteGroups(e),
            !.dataSelected = {},
            !.sel = IF e.sel = NoButton THEN NoButton
                    ELSE [name |-> e.sel.name, live |-> FALSE]]

\* this.#abortController?.abort(): removes the listeners added with its signal.
AbortListeners(e) ==
  IF e.abortController = "live"
  THEN [e EXCEPT !.abortController = "aborted", !.liveListeners = @ - 1]
  ELSE e

\* #addEventListeners() that does not abort the previous controller.
AddEventListenersWithoutAbort(e) ==
  [e EXCEPT !.abortController = "live", !.liveListeners = @ + 1]

\* #addEventListeners()
AddEventListeners(e) ==
  LET a == AbortListeners(e)
  IN  [a EXCEPT !.abortController = "live", !.liveListeners = @ + 1]

\* #updateMainButton()
UpdateMainButton(e) ==
  IF e.name # Null /\ e.int # NullInt
  THEN [e EXCEPT !.text = e.name, !.textShown = TRUE, !.slotShown = FALSE,
                 !.btnInt = e.int]
  ELSE [e EXCEPT !.textShown = FALSE, !.slotShown = TRUE, !.btnInt = NullInt]

\* #updateSelectedButtonElementState()
UpdateSelectedButtonElementState(e) ==
  LET cleared ==
        IF e.sel # NoButton
        THEN [e EXCEPT !.dataSelected = IF e.sel.live THEN @ \ {e.sel.name} ELSE @,
                       !.sel = NoButton]
        ELSE e
  IN  IF Truthy(cleared.name)
      THEN IF cleared.name \in NotesOf(cleared.noteButtons)
           THEN [cleared EXCEPT !.dataSelected = @ \cup {cleared.name},
                                !.sel = [name |-> cleared.name, live |-> TRUE]]
           ELSE [cleared EXCEPT !.sel = NoButton]
      ELSE cleared

\* #dispatchNoteSelectedEvent() dispatching nothing.
DispatchNothing(e) == e

\* #dispatchNoteSelectedEvent(): the detail, and what a listener can read
\* from the element while the event is being dispatched.
DispatchNoteSelectedEvent(e) ==
  [e EXCEPT !.events = Append(@,
     [ noteName |-> e.name, noteInteger |-> e.int, attr |-> e.attr,
       label |-> IF e.textShown THEN e.text ELSE Null, btnInt |-> e.btnInt,
       dialogOpen |-> e.dialogOpen ])]

RECURSIVE SetSelectedNoteName(_, _)
RECURSIVE AttributeChangedCallback(_, _, _, _)

\* this.setAttribute("selected-note-name", value): the attribute is written
\* and the attributeChangedCallback reaction runs before setAttribute returns
\* (also when the value written is the value the attribute already had).
SetAttribute(e, value) ==
  AttributeChangedCallback([e EXCEPT !.attr = value],
                           "selected-note-name", e.attr, value)

\* this.removeAttribute("selected-note-name"): nothing when it is absent.
RemoveAttribute(e) ==
  IF e.attr = Null THEN e
  ELSE AttributeChangedCallback([e EXCEPT !.attr = Null],
                                "selected-note-name", e.attr, Null)

\* #syncSelectedNoteNameAttribute() that writes the attribute and never
\* removes it.
SyncNeverRemoves(e) ==
  IF Truthy(e.name) THEN SetAttribute(e, e.name) ELSE e

\* #syncSelectedNoteNameAttribute()
SyncSelectedNoteNameAttribute(e) ==
  IF Truthy(e.name) THEN SetAttribute(e, e.name) ELSE RemoveAttribute(e)

\* The setter without the early return of its first line.
SetterWithoutEarlyReturn(e, newNote) ==
  LET entered == [e EXCEPT !.depth = @ + 1, !.maxDepth = Max(@, e.depth + 1)]
      reset == [entered EXCEPT !.name = Null, !.int = NullInt]
      noteIndex == IF newNote # Null
                   THEN FindIndex(NoteGroups(e), newNote)
                   ELSE NotFound
      resolved == IF noteIndex # NotFound
                  THEN [reset EXCEPT !.int = noteIndex, !.name = newNote]
                  ELSE reset
      synced == SyncSelectedNoteNameAttribute(resolved)
      shown == IF synced.isConnected
               THEN DispatchNoteSelectedEvent(
                      UpdateSelectedButtonElementState(
                        UpdateMainButton(synced)))
               ELSE synced
  IN  [shown EXCEPT !.depth = @ - 1]

\* The setter with the attribute synchronised only while connected.
SetterSyncingWhenConnected(e, newNote) ==
  LET entered == [e EXCEPT !.depth = @ + 1, !.maxDepth = Max(@, e.depth + 1)]
  IN  IF e.name = newNote
      THEN [entered EXCEPT !.depth = @ - 1]
      ELSE LET reset == [entered EXCEPT !.name = Null, !.int = NullInt]
               noteIndex == IF newNote # Null
                            THEN FindIndex(NoteGroups(e), newNote)
                            ELSE NotFound
               resolved == IF noteIndex # NotFound
                           THEN [reset EXCEPT !.int = noteIndex, !.name = newNote]
                           ELSE reset
               shown == IF resolved.isConnected
                        THEN DispatchNoteSelectedEvent(
                               UpdateSelectedButtonElementState(
                                 UpdateMainButton(
                                   SyncSelectedNoteNameAttribute(resolved))))
                        ELSE resolved
           IN  [shown EXCEPT !.depth = @ - 1]

\* The setter storing the name it is given also when no group holds it.
SetterKeepingUnknownName(e, newNote) ==
  LET entered == [e EXCEPT !.depth = @ + 1, !.maxDepth = Max(@, e.depth + 1)]
  IN  IF e.name = newNote
      THEN [entered EXCEPT !.depth = @ - 1]
      ELSE LET reset == [entered EXCEPT !.name = Null, !.int = NullInt]
               noteIndex == IF newNote # Null
                            THEN FindIndex(NoteGroups(e), newNote)
                            ELSE NotFound
               resolved == IF noteIndex # NotFound
                           THEN [reset EXCEPT !.int = noteIndex, !.name = newNote]
                           ELSE [reset EXCEPT !.name = newNote]
               synced == SyncSelectedNoteNameAttribute(resolved)
               shown == IF synced.isConnected
                        THEN DispatchNoteSelectedEvent(
                               UpdateSelectedButtonElementState(
                                 UpdateMainButton(synced)))
                        ELSE synced
           IN  [shown EXCEPT !.depth = @ - 1]

\* The setter dispatching the event before it updates the main button and
\* the selected button.
SetterDispatchingFirst(e, newNote) ==
  LET entered == [e EXCEPT !.depth = @ + 1, !.maxDepth = Max(@, e.depth + 1)]
  IN  IF e.name = newNote
      THEN [entered EXCEPT !.depth = @ - 1]
      ELSE LET reset == [entered EXCEPT !.name = Null, !.int = NullInt]
               noteIndex == IF newNote # Null
                            THEN FindIndex(NoteGroups(e), newNote)
                            ELSE NotFound
               resolved == IF noteIndex # NotFound
                           THEN [reset EXCEPT !.int = noteIndex, !.name = newNote]
                           ELSE reset
               synced == SyncSelectedNoteNameAttribute(resolved)
               shown == IF synced.isConnected
                        THEN UpdateSelectedButtonElementState(
                               UpdateMainButton(
                                 DispatchNoteSelectedEvent(synced)))
                        ELSE synced
           IN  [shown EXCEPT !.depth = @ - 1]

\* set selectedNoteName(newNote)
SetSelectedNoteName(e, newNote) ==
  LET entered == [e EXCEPT !.depth = @ + 1, !.maxDepth = Max(@, e.depth + 1)]
  IN  IF e.name = newNote
      THEN [entered EXCEPT !.depth = @ - 1]
      ELSE LET reset == [entered EXCEPT !.name = Null, !.int = NullInt]
               noteIndex == IF newNote # Null
                            THEN FindIndex(NoteGroups(e), newNote)
                            ELSE NotFound
               resolved == IF noteIndex # NotFound
                           THEN [reset EXCEPT !.int = noteIndex, !.name = newNote]
                           ELSE reset
               synced == SyncSelectedNoteNameAttribute(resolved)
               shown == IF synced.isConnected
                        THEN DispatchNoteSelectedEvent(
                               UpdateSelectedButtonElementState(
                                 UpdateMainButton(synced)))
                        ELSE synced
           IN  [shown EXCEPT !.depth = @ - 1]

\* attributeChangedCallback that renders no new list when root-notes-only
\* changes.
AttributeChangedCallbackKeepingButtons(e, name, oldValue, newValue) ==
  IF oldValue = newValue THEN e
  ELSE CASE name = "selected-note-name" -> SetSelectedNoteName(e, newValue)
         [] OTHER -> e

\* attributeChangedCallback that clears a selection the newly active catalog
\* does not hold.
AttributeChangedCallbackRevalidating(e, name, oldValue, newValue) ==
  IF oldValue = newValue THEN e
  ELSE CASE name = "selected-note-name" -> SetSelectedNoteName(e, newValue)
         [] name = "root-notes-only" ->
              LET shown == PopulateEnharmonicNoteButtonsDiv(e)
              IN  IF e.name \in NotesOf(NoteGroups(e)) \cup {Null} THEN shown
                  ELSE SetSelectedNoteName(shown, Null)
         [] OTHER -> e

\* attributeChangedCallback(name, oldValue, newValue)
AttributeChangedCallback(e, name, oldValue, newValue) ==
  IF oldValue = newValue THEN e
  ELSE CASE name = "selected-note-name" -> SetSelectedNoteName(e, newValue)
         [] name = "root-notes-only" -> PopulateEnharmonicNoteButtonsDiv(e)
         [] OTHER -> e

\* The style writes of the noteColorGroup setter: the array branch runs
\* forEach over the entries of the array, the null branch over the 12 pitch
\* classes.
ApplyNoteColors(e, group) ==
  IF group # NoGroup
  THEN LET g == group[1]
       IN  [e EXCEPT
             !.noteColor = [i \in PitchIntegers |->
                IF i < Len(g) THEN SetProperty(g[i + 1]) ELSE e.noteColor[i]],
             !.noteTextColor = [i \in PitchIntegers |->
                IF i < Len(g)
                THEN SetProperty(IF Truthy(g[i + 1])
                                 THEN GetContrastColor(g[i + 1]) ELSE Null)
                ELSE e.noteTextColor[i]]]
  ELSE [e EXCEPT !.noteColor = [i \in PitchIntegers |-> SetProperty(Null)],
                 !.noteTextColor = [i \in PitchIntegers |-> SetProperty(Null)]]

\* The noteColorGroup setter clearing only the background overrides on null.
SetNoteColorGroupKeepingText(e, group) ==
  IF group # NoGroup
  THEN [ApplyNoteColors(e, group) EXCEPT !.colorGroup = group]
  ELSE [e EXCEPT !.colorGroup = NoGroup,
                 !.noteColor = [i \in PitchIntegers |-> SetProperty(Null)]]

\* The noteColorGroup setter announcing the selection again while connected.
SetNoteColorGroupDispatching(e, group) ==
  IF e.isConnected
  THEN DispatchNoteSelectedEvent(
         [ApplyNoteColors(e, group) EXCEPT !.colorGroup = group])
  ELSE [ApplyNoteColors(e, group) EXCEPT !.colorGroup = group]

\* set noteColorGroup(noteColorGroup)
SetNoteColorGroup(e, group) ==
  [ApplyNoteColors(e, group) EXCEPT !.colorGroup = group]

\* connectedCallback() that announces the selection it finds.
ConnectedCallbackAnnouncing(e) ==
  DispatchNoteSelectedEvent(
    SyncSelectedNoteNameAttribute(
      UpdateMainButton(
        UpdateSelectedButtonElementState(
          AddEventListeners(
            PopulateEnharmonicNoteButtonsDiv(e))))))

\* connectedCallback() that does not refresh the main button.
ConnectedCallbackKeepingMainButton(e) ==
  SyncSelectedNoteNameAttribute(
    UpdateSelectedButtonElementState(
      AddEventListeners(
        PopulateEnharmonicNoteButtonsDiv(e))))

\* connectedCallback()
ConnectedCallback(e) ==
  SyncSelectedNoteNameAttribute(
    UpdateMainButton(
      UpdateSelectedButtonElementState(
        AddEventListeners(
          PopulateEnharmonicNoteButtonsDiv(e)))))

\* disconnectedCallback() that leaves the listeners in place.
DisconnectedCallbackKeepingListeners(e) == e

\* disconnectedCallback()
DisconnectedCallback(e) == AbortListeners(e)

(***************************************************************************)
(* Operations                                                              *)
(***************************************************************************)

\* The fields of the element after an operation.
Store(e) ==
  /\ selectedNoteName' = e.name
  /\ selectedNoteInteger' = e.int
  /\ attr' = e.attr
  /\ rootAttr' = e.rootAttr
  /\ isConnected' = e.isConnected
  /\ liveListeners' = e.liveListeners
  /\ abortController' = e.abortController
  /\ dialogOpen' = e.dialogOpen
  /\ noteButtons' = e.noteButtons
  /\ dataSelected' = e.dataSelected
  /\ selectedButtonElement' = e.sel
  /\ mainButtonText' = e.text
  /\ mainButtonTextShown' = e.textShown
  /\ mainButtonSlotShown' = e.slotShown
  /\ mainButtonNoteInteger' = e.btnInt
  /\ noteColorGroup' = e.colorGroup
  /\ noteColor' = e.noteColor
  /\ noteTextColor' = e.noteTextColor
  /\ noteButtonListeners' = e.noteButtonListeners
  /\ events' = e.events
  /\ handlerRuns' = e.handlerRuns
  /\ setterDepth' = e.maxDepth
  /\ UNCHANGED << catalog, anchors >>

\* An operation that runs to completion: the element after it, the operation
\* and the element it started from.
Commit(e, op, arg) ==
  /\ Store(e)
  /\ lastOp' = [op |-> op, arg |-> arg]
  /\ pre' = Snapshot

\* The listeners with a note-button listener that only closes the dialog.
ListenerIgnoringPick(e, gesture, note) ==
  CASE gesture = "open"  -> [e EXCEPT !.dialogOpen = TRUE]
    [] gesture = "close" -> [e EXCEPT !.dialogOpen = FALSE]
    [] gesture = "pick"  -> [e EXCEPT !.dialogOpen = FALSE]
    [] gesture = "clear" -> [SetSelectedNoteName(e, Null) EXCEPT !.dialogOpen = FALSE]

\* The listeners with a clear-selection listener that only closes the dialog.
ListenerIgnoringClear(e, gesture, note) ==
  CASE gesture = "open"  -> [e EXCEPT !.dialogOpen = TRUE]
    [] gesture = "close" -> [e EXCEPT !.dialogOpen = FALSE]
    [] gesture = "pick"  -> [SetSelectedNoteName(e, note) EXCEPT !.dialogOpen = FALSE]
    [] gesture = "clear" -> [e EXCEPT !.dialogOpen = FALSE]

\* The listeners with the note-button one closing the dialog before it
\* assigns the note.
ListenerClosingFirst(e, gesture, note) ==
  CASE gesture = "open"  -> [e EXCEPT !.dialogOpen = TRUE]
    [] gesture = "close" -> [e EXCEPT !.dialogOpen = FALSE]
    [] gesture = "pick"  -> SetSelectedNoteName([e EXCEPT !.dialogOpen = FALSE], note)
    [] gesture = "clear" -> [SetSelectedNoteName(e, Null) EXCEPT !.dialogOpen = FALSE]

\* The four click listeners #addEventListeners() installs: on the main
\* button, the close button, the note-buttons container (note: the
\* data-note-name of the button clicked) and the clear button.
Listener(e, gesture, note) ==
  CASE gesture = "open"  -> [e EXCEPT !.dialogOpen = TRUE]
    [] gesture = "close" -> [e EXCEPT !.dialogOpen = FALSE]
    [] gesture = "pick"  -> [SetSelectedNoteName(e, note) EXCEPT !.dialogOpen = FALSE]
    [] gesture = "clear" -> [SetSelectedNoteName(e, Null) EXCEPT !.dialogOpen = FALSE]

\* A click reaches every live set of listeners: n is their number.
RECURSIVE Click(_, _, _, _)
Click(n, e, gesture, note) ==
  IF n = 0 THEN e
  ELSE Click(n - 1,
             [Listener(e, gesture, note) EXCEPT !.handlerRuns = @ + 1],
             gesture, note)

\* The anchors the constructor looks up in the shadow root.
RequiredAnchors ==
  { "main-button", "main-button-text-span", "main-button-slot", "dialog",
    "close-dialog-button", "enharmonic-note-buttons-div",
    "clear-selection-button" }

\* What querySelector finds when the template lacks one anchor: the slot is
\* looked up inside the main button, so it is missing with it.
Without(anchor) ==
  IF anchor = "main-button"
  THEN RequiredAnchors \ {"main-button", "main-button-slot"}
  ELSE RequiredAnchors \ {anchor}

\* The cloned templates the constructor is run on: the shipped one, which
\* holds every anchor, and the ones that lack an anchor.
Templates == {RequiredAnchors} \cup { Without(a) : a \in RequiredAnchors }

\* #cacheDomElements() checking every anchor but the clear button.
CacheDomElementsForgettingOne(found) ==
  \A a \in RequiredAnchors \ {"clear-selection-button"} : a \in found

\* #cacheDomElements(): TRUE when it returns, FALSE when it throws.
CacheDomElements(found) == \A a \in RequiredAnchors : a \in found

Init ==
  /\ catalog \in Catalogs
  /\ selectedNoteName = Null
  /\ selectedNoteInteger = NullInt
  /\ attr = Null
  /\ rootAttr = Null
  /\ isConnected = FALSE
  /\ liveListeners = 0
  /\ abortController = "null"
  /\ dialogOpen = FALSE
  /\ noteButtons = <<>>
  /\ dataSelected = {}
  /\ selectedButtonElement = NoButton
  /\ mainButtonText = ""
  /\ mainButtonTextShown = FALSE
  /\ mainButtonSlotShown = TRUE
  /\ mainButtonNoteInteger = NullInt
  /\ anchors \in Templates
  /\ noteColorGroup = NoGroup
  /\ noteColor = [i \in PitchIntegers |-> NoOverride]
  /\ noteTextColor = [i \in PitchIntegers |-> NoOverride]
  /\ noteButtonListeners = 0
  /\ events = <<>>
  /\ handlerRuns = 0
  /\ setterDepth = 0
  /\ pc = IF CacheDomElements(anchors) THEN "idle" ELSE "threw"
  /\ lastOp = [op |-> "constructor", arg |-> Null]
  /\ pre = Snapshot

\* element.selectedNoteName = newNote
AssignSelectedNoteName ==
  /\ pc = "idle"
  /\ \E newNote \in Names \cup {Null} :
       Commit(SetSelectedNoteName(El, newNote), "assign", newNote)
  /\ UNCHANGED pc

\* element.setAttribute("selected-note-name", value)
WriteSelectedNoteNameAttribute ==
  /\ pc = "idle"
  /\ \E value \in Names : Commit(SetAttribute(El, value), "setAttribute", value)
  /\ UNCHANGED pc

\* element.removeAttribute("selected-note-name")
RemoveSelectedNoteNameAttribute ==
  /\ pc = "idle"
  /\ Commit(RemoveAttribute(El), "removeAttribute", Null)
  /\ UNCHANGED pc

\* element.setAttribute("root-notes-only", value), and
\* element.rootNotesOnly = true (toggleAttribute adds it with value "").
AddRootNotesOnly ==
  /\ pc = "idle"
  /\ \E value \in RootValues :
       Commit(AttributeChangedCallback([El EXCEPT !.rootAttr = value],
                                       "root-notes-only", rootAttr, value),
              "addRootNotesOnly", value)
  /\ UNCHANGED pc

\* element.removeAttribute("root-notes-only"), and
\* element.rootNotesOnly = false: nothing when the attribute is absent.
RemoveRootNotesOnly ==
  /\ pc = "idle"
  /\ Commit(IF rootAttr = Null THEN El
            ELSE AttributeChangedCallback([El EXCEPT !.rootAttr = Null],
                                          "root-notes-only", rootAttr, Null),
            "removeRootNotesOnly", Null)
  /\ UNCHANGED pc

\* The host is inserted into a document: connectedCallback().
Connect ==
  /\ pc = "idle"
  /\ ~isConnected
  /\ Commit(ConnectedCallback([El EXCEPT !.isConnected = TRUE]), "connect", Null)
  /\ UNCHANGED pc

\* connectedCallback() called again on the connected element, with no
\* disconnectedCallback() in between.
CallConnectedCallbackAgain ==
  /\ pc = "idle"
  /\ isConnected
  /\ Commit(ConnectedCallback(El), "connectedCallback", Null)
  /\ UNCHANGED pc

\* The host is removed from its document: disconnectedCallback().
Disconnect ==
  /\ pc = "idle"
  /\ isConnected
  /\ Commit(DisconnectedCallback([El EXCEPT !.isConnected = FALSE]),
            "disconnect", Null)
  /\ UNCHANGED pc

\* A click on the main button (the dialog is closed: an open modal dialog
\* makes the rest of the page inert).
ClickMainButton ==
  /\ pc = "idle"
  /\ ~dialogOpen
  /\ Commit(Click(liveListeners, El, "open", Null), "open", Null)
  /\ UNCHANGED pc

\* A click on the close button of the dialog.
ClickCloseDialogButton ==
  /\ pc = "idle"
  /\ Commit(Click(liveListeners, El, "close", Null), "close", Null)
  /\ UNCHANGED pc

\* A click on one of the rendered note buttons.
ClickNoteButton ==
  /\ pc = "idle"
  /\ \E note \in NotesOf(noteButtons) :
       Commit(Click(liveListeners, El, "pick", note), "pick", note)
  /\ UNCHANGED pc

\* A click on the clear-selection button.
ClickClearSelectionButton ==
  /\ pc = "idle"
  /\ Commit(Click(liveListeners, El, "clear", Null), "clear", Null)
  /\ UNCHANGED pc

\* element.setRandomNote() is called: the do/while loop is entered.
SetRandomNote ==
  /\ pc = "idle"
  /\ pc' = "random"
  /\ lastOp' = [op |-> "setRandomNote", arg |-> Null]
  /\ pre' = Snapshot
  /\ events' = <<>>
  /\ handlerRuns' = 0
  /\ setterDepth' = 0
  /\ UNCHANGED << catalog, anchors, noteColorGroup, noteColor, noteTextColor,
                  noteButtonListeners, selectedNoteName, selectedNoteInteger, attr,
                  rootAttr, isConnected, liveListeners, abortController,
                  dialogOpen, noteButtons, dataSelected, selectedButtonElement,
                  mainButtonText, mainButtonTextShown, mainButtonSlotShown,
                  mainButtonNoteInteger >>

\* A loop that never goes round again (the older variant draws once).
NeverLoopAgain(e, randomNote) == FALSE

\* while (randomNote === this.selectedNoteName)
LoopAgain(e, randomNote) == randomNote = e.name

\* One iteration of setRandomNote's loop: a group and a note of the group
\* are drawn; the loop goes round again when the note drawn is the selected
\* one, and otherwise ends with the assignment of the note drawn.
RandomDraw ==
  /\ pc = "random"
  /\ \E g \in 1..Len(NoteGroups(El)) :
       \E i \in 1..Len(NoteGroups(El)[g]) :
         LET randomNote == NoteGroups(El)[g][i]
         IN  IF LoopAgain(El, randomNote)
             THEN UNCHANGED vars
             ELSE /\ Store(SetSelectedNoteName(El, randomNote))
                  /\ lastOp' = [op |-> "setRandomNote", arg |-> randomNote]
                  /\ pc' = "idle"
                  /\ UNCHANGED pre

\* element.noteColorGroup = group
AssignNoteColorGroup ==
  /\ pc = "idle"
  /\ \E group \in {NoGroup} \cup { <<g>> : g \in ColorGroups } :
       Commit(SetNoteColorGroup(El, group), "assignNoteColorGroup", Null)
  /\ UNCHANGED pc

Next ==
  \/ AssignSelectedNoteName
  \/ WriteSelectedNoteNameAttribute
  \/ RemoveSelectedNoteNameAttribute
  \/ AddRootNotesOnly
  \/ RemoveRootNotesOnly
  \/ Connect
  \/ CallConnectedCallbackAgain
  \/ Disconnect
  \/ ClickMainButton
  \/ ClickCloseDialogButton
  \/ ClickNoteButton
  \/ ClickClearSelectionButton
  \/ SetRandomNote
  \/ RandomDraw

Spec == Init /\ [][Next]_vars

\* The theme is state of its own: no other operation reads or writes it.  It
\* is run with the operations that change the selection and the connection.
ThemeNext ==
  \/ AssignNoteColorGroup
  \/ AssignSelectedNoteName
  \/ WriteSelectedNoteNameAttribute
  \/ Connect
  \/ Disconnect

ThemeSpec == Init /\ [][ThemeNext]_vars

(***************************************************************************)
(* The variant of the component in part_003.  It has one catalog            *)
(* (enharmonicNotes), the attribute selected-note, a static list of note    *)
(* buttons in its template, and no root-notes-only, clear button or theme.  *)
(* Its methods carry the prefix Part003.                                    *)
(***************************************************************************)

\* How many times the element is attached.
MaxConnects == 3

\* The text of the main button when nothing is selected.
Part003Placeholder == "(select note)"

RECURSIVE Part003SetSelectedNoteName(_, _)
RECURSIVE Part003AttributeChangedCallback(_, _, _)
RECURSIVE Part003UpdateSelectedNoteAttribute(_)

\* #updateNoteSelectorButtonText()
Part003UpdateNoteSelectorButtonText(e) ==
  [e EXCEPT !.text = IF Truthy(e.name) THEN e.name ELSE Part003Placeholder,
            !.textShown = TRUE]

\* #updateSelectedNoteAttribute(): setAttribute runs the callback also when
\* the value is the old one, removeAttribute only when the attribute is there.
Part003UpdateSelectedNoteAttribute(e) ==
  IF Truthy(e.name)
  THEN Part003AttributeChangedCallback([e EXCEPT !.attr = e.name], e.attr, e.name)
  ELSE IF e.attr = Null
       THEN e
       ELSE Part003AttributeChangedCallback([e EXCEPT !.attr = Null], e.attr, Null)

\* attributeChangedCallback(name, oldValue, newValue) for "selected-note"
Part003AttributeChangedCallback(e, oldValue, newValue) ==
  IF oldValue # newValue THEN Part003SetSelectedNoteName(e, newValue) ELSE e

\* set selectedNoteName(newNote): no early return and no event.
Part003SetSelectedNoteName(e, newNote) ==
  LET reset == [e EXCEPT !.name = Null, !.int = NullInt]
      i == IF newNote # Null THEN FindIndex(catalog.full, newNote) ELSE NotFound
      resolved == IF i # NotFound
                  THEN [reset EXCEPT !.int = i, !.name = newNote]
                  ELSE reset
  IN  Part003UpdateSelectedNoteAttribute(
        Part003UpdateNoteSelectorButtonText(resolved))

\* #dispatchNoteSelectedEvent()
Part003DispatchNoteSelectedEvent(e) ==
  [e EXCEPT !.events = Append(@,
     [ noteName |-> e.name, noteInteger |-> e.int, attr |-> e.attr,
       label |-> e.text, btnInt |-> e.btnInt, dialogOpen |-> e.dialogOpen ])]

\* The click listener connectedCallback() adds to every note button: note is
\* the button's data-note-name, its data-pitch-integer the index of its group.
Part003NoteButtonListener(e, note) ==
  LET stored == [e EXCEPT !.name = IF Truthy(note) THEN note ELSE Null,
                          !.int = FindIndex(catalog.full, note)]
      shown == Part003UpdateSelectedNoteAttribute(
                 Part003UpdateNoteSelectorButtonText(stored))
  IN  Part003DispatchNoteSelectedEvent([shown EXCEPT !.dialogOpen = FALSE])

\* A click on a note button runs every listener the button holds: n of them.
RECURSIVE Part003Click(_, _, _)
Part003Click(n, e, note) ==
  IF n = 0 THEN e
  ELSE Part003Click(n - 1,
                    [Part003NoteButtonListener(e, note) EXCEPT !.handlerRuns = @ + 1],
                    note)

\* connectedCallback(): a new AbortController; its signal is passed to the
\* listeners of the main button and of the close button.  For the note
\* buttons { signal } is the second argument of forEach, not of
\* addEventListener: their listeners are bound to no signal.
Part003ConnectedCallback(e) ==
  LET listening == [e EXCEPT !.abortController = "live",
                             !.liveListeners = @ + 1,
                             !.noteButtonListeners = @ + 1]
  IN  Part003UpdateSelectedNoteAttribute(
        Part003UpdateNoteSelectorButtonText(listening))

\* disconnectedCallback(): this.#abortController?.abort()
Part003DisconnectedCallback(e) ==
  IF e.abortController = "live"
  THEN [e EXCEPT !.abortController = "aborted", !.liveListeners = 0]
  ELSE e

\* The variant's template holds its main button and its dialog.
Part003Init == Init /\ anchors = RequiredAnchors

\* The element is attached to a document.
Part003Connect ==
  /\ pc = "idle"
  /\ ~isConnected
  /\ noteButtonListeners < MaxConnects
  /\ Commit(Part003ConnectedCallback([El EXCEPT !.isConnected = TRUE]),
            "part003 connect", Null)
  /\ UNCHANGED pc

\* The element is detached from its document.
Part003Disconnect ==
  /\ pc = "idle"
  /\ isConnected
  /\ Commit(Part003DisconnectedCallback([El EXCEPT !.isConnected = FALSE]),
            "part003 disconnect", Null)
  /\ UNCHANGED pc

\* A click on the main button: showModal() through the live listener.
Part003ClickMainButton ==
  /\ pc = "idle"
  /\ ~dialogOpen
  /\ Commit([El EXCEPT !.dialogOpen = liveListeners > 0,
                       !.handlerRuns = liveListeners],
            "part003 open", Null)
  /\ UNCHANGED pc

\* A click on a note button.
Part003ClickNoteButton ==
  /\ pc = "idle"
  /\ \E note \in NotesOf(catalog.full) :
       Commit(Part003Click(noteButtonListeners, El, note), "part003 pick", note)
  /\ UNCHANGED pc

\* element.selectedNoteName = v
Part003AssignSelectedNoteName ==
  /\ pc = "idle"
  /\ \E v \in Names \cup {Null} :
       Commit(Part003SetSelectedNoteName(El, v), "part003 assign", v)
  /\ UNCHANGED pc

Part003Next ==
  \/ Part003Connect
  \/ Part003Disconnect
  \/ Part003ClickMainButton
  \/ Part003ClickNoteButton
  \/ Part003AssignSelectedNoteName

Part003Spec == Part003Init /\ [][Part003Next]_vars

(***************************************************************************)
(* Properties                                                              *)
(***************************************************************************)

\* The catalog in force in the current state.
ActiveGroups == NoteGroups(El)

ActiveNotes == NotesOf(ActiveGroups)

\* p is the index (0-based) of a group of the active catalog that holds note.
IsGroupOf(p, note) ==
  /\ p \in 0..(Len(ActiveGroups) - 1)
  /\ Includes(ActiveGroups[p + 1], note)

\* The last operation has completed.
Completed == pc = "idle"

\* The last operation changed the (selectedNoteName, selectedNoteInteger) pair.
SelectionChanged ==
  selectedNoteName # pre.name \/ selectedNoteInteger # pre.int

\* The main button as the last operation found it.
MainButtonUnchanged ==
  /\ mainButtonText = pre.text
  /\ mainButtonTextShown = pre.textShown
  /\ mainButtonSlotShown = pre.slotShown
  /\ mainButtonNoteInteger = pre.btnInt

\* C1: assigning selectedNoteName = s, for a note s of the active catalog,
\* leaves selectedNoteName = s and selectedNoteInteger = the index of the
\* catalog group that contains s; "B#" gives ("B#", 0).
C1_AssignValidSelects ==
  (Completed /\ lastOp.op = "assign" /\ lastOp.arg \in ActiveNotes) =>
     /\ selectedNoteName = lastOp.arg
     /\ IsGroupOf(selectedNoteInteger, lastOp.arg)
     /\ (lastOp.arg = "B#" => selectedNoteInteger = 0)

C1_Witness ==
  /\ lastOp = [op |-> "assign", arg |-> "Db"]
  /\ pre.name = "B#"
  /\ selectedNoteName = "Db"
  /\ selectedNoteInteger = 1

\* C2 (as claimed): assigning selectedNoteName = s, for a string s that is
\* not in the active catalog, ends in Unselected from any reachable state.
C2_AssignInvalidClears ==
  (Completed /\ lastOp.op = "assign" /\ lastOp.arg \notin ActiveNotes) =>
     /\ selectedNoteName = Null
     /\ selectedNoteInteger = NullInt

\* C3 (as claimed): every operation that changes the selection emits exactly
\* one event whose detail is the new pair, connected or not.
C3_ChangeEmitsOneEvent ==
  (Completed /\ SelectionChanged) =>
     /\ Len(events) = 1
     /\ events[1].noteName = selectedNoteName
     /\ events[1].noteInteger = selectedNoteInteger

\* C3 (amended): an operation that changes the selection emits exactly one
\* event, whose detail is the new pair, when the element is connected, and
\* no event when it is disconnected.
C3_ChangeEmitsOneEventWhenConnected ==
  (Completed /\ SelectionChanged) =>
     IF isConnected
     THEN /\ Len(events) = 1
          /\ events[1].noteName = selectedNoteName
          /\ events[1].noteInteger = selectedNoteInteger
     ELSE events = <<>>

C3_Witness ==
  /\ isConnected
  /\ lastOp = [op |-> "setAttribute", arg |-> "H"]
  /\ pre.name = "C#"
  /\ events = << [noteName |-> Null, noteInteger |-> NullInt, attr |-> Null,
                  label |-> Null, btnInt |-> NullInt,
                  dialogOpen |-> dialogOpen] >>

\* C4: assigning the name that is already selected (or null while
\* Unselected) emits no event and changes neither the selection, the host
\* attribute nor the main button.
C4_AssignSameIsNoOp ==
  (Completed /\ lastOp.op = "assign" /\ lastOp.arg = pre.name) =>
     /\ events = <<>>
     /\ selectedNoteName = pre.name
     /\ selectedNoteInteger = pre.int
     /\ attr = pre.attr
     /\ MainButtonUnchanged

C4_Witness ==
  /\ isConnected
  /\ lastOp = [op |-> "assign", arg |-> "C#"]
  /\ pre.name = "C#"
  /\ selectedNoteName = "C#"

\* C5 (as claimed): an event is emitted only by an operation whose resulting
\* (selectedNoteName, selectedNoteInteger) pair differs from the pair before.
C5_EventOnlyOnChange ==
  (Completed /\ events # <<>>) => SelectionChanged

\* C5 (amended): an event is emitted only by an operation whose resulting
\* pair differs from the pair before, or by one that assigns (by property or
\* attribute) a string that is not in the active catalog while Unselected,
\* which emits one event with detail (null, null).
C5_EventOnlyOnChangeOrInvalid ==
  (Completed /\ events # <<>>) =>
     \/ SelectionChanged
     \/ /\ lastOp.op \in {"assign", "setAttribute"}
        /\ lastOp.arg \notin ActiveNotes \cup {Null}
        /\ pre.name = Null
        /\ selectedNoteName = Null
        /\ Len(events) = 1
        /\ events[1].noteName = Null
        /\ events[1].noteInteger = NullInt

C5_Witness ==
  /\ lastOp = [op |-> "assign", arg |-> ""]
  /\ pre.name = Null
  /\ Len(events) = 1
  /\ selectedNoteName = Null

\* C6: a completed setRandomNote never leaves selected the note that was
\* selected when it was called (so two consecutive calls never leave the same
\* note), and leaves Selected a note of the active catalog with the pitch
\* integer of the group it was drawn from.
C6_RandomNeverRepeats ==
  (Completed /\ lastOp.op = "setRandomNote") =>
     /\ selectedNoteName # pre.name
     /\ selectedNoteName = lastOp.arg
     /\ selectedNoteName \in ActiveNotes
     /\ IsGroupOf(selectedNoteInteger, selectedNoteName)

C6_Witness ==
  /\ Completed
  /\ lastOp = [op |-> "setRandomNote", arg |-> "Db"]
  /\ pre.name = "C#"
  /\ selectedNoteName = "Db"
  /\ selectedNoteInteger = 1
  /\ Cardinality(ActiveNotes) >= 2

\* C7 (as claimed): setRandomNote terminates for every catalog and every
\* selection: whenever its loop is running, some draw ends it.
C7_RandomLoopCanEnd ==
  pc = "random" =>
     \E g \in 1..Len(ActiveGroups) :
       \E i \in 1..Len(ActiveGroups[g]) : ~LoopAgain(El, ActiveGroups[g][i])

\* C8: selectedNoteName = null, after the assignment of any string from any
\* state, ends in Unselected with the host attribute absent.
C8_AssignNullClears ==
  (Completed /\ lastOp = [op |-> "assign", arg |-> Null]) =>
     /\ selectedNoteName = Null
     /\ selectedNoteInteger = NullInt
     /\ attr = Null

C8_Witness ==
  /\ lastOp = [op |-> "assign", arg |-> Null]
  /\ pre.name = "Dbb"
  /\ pre.attr = "Dbb"
  /\ selectedNoteName = Null
  /\ attr = Null

\* C9: adding or removing root-notes-only emits no event and leaves
\* selectedNoteName, selectedNoteInteger and the selected-note-name attribute
\* as they were, also when the selected note is not in the new catalog.
C9_RootToggleKeepsSelection ==
  (Completed /\ lastOp.op \in {"addRootNotesOnly", "removeRootNotesOnly"}) =>
     /\ events = <<>>
     /\ selectedNoteName = pre.name
     /\ selectedNoteInteger = pre.int
     /\ attr = pre.attr

C9_Witness ==
  /\ lastOp.op = "addRootNotesOnly"
  /\ pre.rootAttr = Null
  /\ rootAttr # Null
  /\ isConnected
  /\ selectedNoteName = "B#"
  /\ selectedNoteName \notin ActiveNotes

Gesture == lastOp.op \in {"open", "pick", "clear", "close"}

\* C11: while the element is detached the open, pick, clear and close
\* gestures change neither the selection nor the dialog's open state and emit
\* no event; on the attached element they act again.
C11_DetachedIgnoresGestures ==
  (Completed /\ Gesture) =>
     IF ~isConnected
     THEN /\ selectedNoteName = pre.name
          /\ selectedNoteInteger = pre.int
          /\ dialogOpen = pre.dialogOpen
          /\ events = <<>>
          /\ handlerRuns = 0
     ELSE /\ handlerRuns = 1
          /\ lastOp.op = "open" => dialogOpen
          /\ lastOp.op \in {"pick", "clear", "close"} => ~dialogOpen
          /\ lastOp.op = "pick" => selectedNoteName = lastOp.arg
          /\ lastOp.op = "clear" => selectedNoteName = Null

C11_Witness ==
  /\ ~isConnected
  /\ abortController = "aborted"
  /\ lastOp = [op |-> "pick", arg |-> "Db"]
  /\ pre.name = "C"
  /\ selectedNoteName = "C"
  /\ dialogOpen

\* C12: after any sequence of connectedCallback and disconnectedCallback
\* calls at most one set of listeners is live, so a click on a note button
\* runs the listener at most once (once when a set is live) and emits at most
\* one event.
C12_OneListenerSet ==
  /\ liveListeners <= 1
  /\ (Completed /\ lastOp.op = "pick") =>
        /\ handlerRuns = pre.liveListeners
        /\ handlerRuns <= 1
        /\ Len(events) <= 1

C12_Witness ==
  /\ lastOp.op = "connectedCallback"
  /\ pre.liveListeners = 1
  /\ liveListeners = 1
  /\ abortController = "live"

C14_AttributeWriteSelects ==
  (Completed /\ lastOp.op = "setAttribute") =>
     IF lastOp.arg \in ActiveNotes
     THEN /\ selectedNoteName = lastOp.arg
          /\ IsGroupOf(selectedNoteInteger, lastOp.arg)
     ELSE /\ selectedNoteName = Null
          /\ selectedNoteInteger = NullInt
          /\ attr = Null

\* C15: when an anchor is missing from the cloned template the constructor
\* throws: the element never becomes an instance, none of its callbacks runs
\* and no listeners are installed on it.
C15_MissingAnchorThrows ==
  anchors # RequiredAnchors =>
     /\ pc = "threw"
     /\ lastOp.op = "constructor"
     /\ liveListeners = 0
     /\ abortController = "null"
     /\ noteButtons = <<>>

C15_Witness ==
  /\ anchors = Without("main-button")
  /\ pc = "threw"
  /\ liveListeners = 0

\* C16 (as claimed): after a 12-entry array g is assigned, for every pitch
\* class i the background override is g[i] and the text override is
\* getContrastColor(g[i]) when g[i] is not null, and both are absent when it
\* is null; after null is assigned all 24 overrides are absent.
C16_OverridesFollowNonNullEntries ==
  (Completed /\ lastOp.op = "assignNoteColorGroup") =>
     IF noteColorGroup # NoGroup
     THEN \A i \in PitchIntegers :
            LET color == noteColorGroup[1][i + 1]
            IN  IF color # Null
                THEN /\ noteColor[i] = color
                     /\ noteTextColor[i] = GetContrastColor(color)
                ELSE /\ noteColor[i] = NoOverride
                     /\ noteTextColor[i] = NoOverride
     ELSE \A i \in PitchIntegers :
            noteColor[i] = NoOverride /\ noteTextColor[i] = NoOverride

\* C16 (amended): an entry that is null or the empty string leaves both
\* overrides absent; any other entry is the background override and its
\* contrast color the text override.  The overrides are a function of the
\* array assigned last, whatever was assigned before.
C16_OverridesFollowLastAssignment ==
  (Completed /\ lastOp.op = "assignNoteColorGroup") =>
     IF noteColorGroup # NoGroup
     THEN \A i \in PitchIntegers :
            LET color == noteColorGroup[1][i + 1]
            IN  IF Truthy(color)
                THEN /\ noteColor[i] = color
                     /\ noteTextColor[i] = GetContrastColor(color)
                ELSE /\ noteColor[i] = NoOverride
                     /\ noteTextColor[i] = NoOverride
     ELSE \A i \in PitchIntegers :
            noteColor[i] = NoOverride /\ noteTextColor[i] = NoOverride

\* null is assigned over a theme whose overrides were set, and clears them.
C16_Witness ==
  /\ Completed
  /\ lastOp.op = "assignNoteColorGroup"
  /\ noteColorGroup = NoGroup
  /\ pre.noteColor[0] = "#ffffff"
  /\ pre.noteTextColor[0] = "black"
  /\ noteColor[0] = NoOverride
  /\ noteTextColor[0] = NoOverride

\* C17: assigning noteColorGroup changes neither the selected name, nor the
\* selected integer, nor the selected-note-name attribute, and dispatches
\* no event.
C17_ThemeKeepsSelection ==
  (Completed /\ lastOp.op = "assignNoteColorGroup") =>
     /\ selectedNoteName = pre.name
     /\ selectedNoteInteger = pre.int
     /\ attr = pre.attr
     /\ events = <<>>

\* A theme replaces another one on a connected element with a selection.
C17_Witness ==
  /\ Completed
  /\ lastOp.op = "assignNoteColorGroup"
  /\ isConnected
  /\ selectedNoteName = "Db"
  /\ attr = "Db"
  /\ noteColorGroup # NoGroup
  /\ pre.noteColor[3] = "#ffffff"
  /\ noteColor[3] = "#000000"

\* C18 (as claimed): in the part_003 variant a click on a note button of a
\* detached element changes no selection and dispatches no event, and on an
\* attached element it dispatches one event, however often the element was
\* detached and attached again.
C18_Part003NoteButtonsReleased ==
  (Completed /\ lastOp.op = "part003 pick") =>
     IF ~isConnected
     THEN /\ selectedNoteName = pre.name
          /\ selectedNoteInteger = pre.int
          /\ events = <<>>
     ELSE Len(events) = 1

\* C19: every event is dispatched on an element that already shows the new
\* selection: the attribute and the label of the main button are the name in
\* the detail (absent and hidden for null), the pitch class of the main
\* button is the integer in the detail, and the detail of the last event is
\* the selection the operation ends with.
C19_EventSeesNewSelection ==
  /\ \A k \in 1..Len(events) :
       /\ events[k].attr = events[k].noteName
       /\ events[k].label = events[k].noteName
       /\ events[k].btnInt = events[k].noteInteger
  /\ (Completed /\ events # <<>>) =>
       /\ events[Len(events)].noteName = selectedNoteName
       /\ events[Len(events)].noteInteger = selectedNoteInteger

\* An assignment replaces one valid selection by another on a connected
\* element, and the event carries the new one.
C19_Witness ==
  /\ Completed
  /\ lastOp = [op |-> "assign", arg |-> "Db"]
  /\ pre.name = "C"
  /\ pre.text = "C"
  /\ pre.attr = "C"
  /\ Len(events) = 1
  /\ events[1].noteName = "Db"
  /\ events[1].label = "Db"
  /\ events[1].attr = "Db"

\* C20: a pick on a rendered note button of a connected element ends with
\* that button's name and pitch class selected and the dialog closed, and
\* the dialog is closed after the selection is stored: an event the pick
\* dispatches carries the picked name and still sees the dialog as it was.
C20_PickSelectsThenCloses ==
  (Completed /\ lastOp.op = "pick" /\ isConnected) =>
     /\ selectedNoteName = lastOp.arg
     /\ IsGroupOf(selectedNoteInteger, lastOp.arg)
     /\ ~dialogOpen
     /\ \A k \in 1..Len(events) :
          /\ events[k].noteName = lastOp.arg
          /\ events[k].dialogOpen = pre.dialogOpen

\* A note is picked in the open dialog over another selection.
C20_Witness ==
  /\ Completed
  /\ lastOp = [op |-> "pick", arg |-> "C#"]
  /\ isConnected
  /\ pre.dialogOpen
  /\ pre.name = "C"
  /\ selectedNoteName = "C#"
  /\ ~dialogOpen
  /\ Len(events) = 1
  /\ events[1].dialogOpen

\* What the clear gesture ends in: Unselected, the dialog closed, the
\* attribute absent, one event with detail (null, null) when a note was
\* selected before and none when none was.
ClearedAndAnnounced ==
  /\ selectedNoteName = Null
  /\ selectedNoteInteger = NullInt
  /\ attr = Null
  /\ ~dialogOpen
  /\ IF pre.name # Null
     THEN /\ Len(events) = 1
          /\ events[1].noteName = Null
          /\ events[1].noteInteger = NullInt
     ELSE events = <<>>

\* C21 (as claimed): every clear gesture ends in Unselected with the dialog
\* closed and the attribute absent, with one (null, null) event when a note
\* was selected and no event otherwise.
C21_ClearAlwaysClears ==
  (Completed /\ lastOp.op = "clear") => ClearedAndAnnounced

\* C21 (amended): the clear gesture does so on a connected element; on a
\* detached element its listener is removed and the gesture changes nothing.
C21_ClearClearsWhileConnected ==
  (Completed /\ lastOp.op = "clear") =>
     IF isConnected
     THEN ClearedAndAnnounced
     ELSE /\ selectedNoteName = pre.name
          /\ selectedNoteInteger = pre.int
          /\ attr = pre.attr
          /\ dialogOpen = pre.dialogOpen
          /\ events = <<>>

\* A selection is cleared in the open dialog of a connected element.
C21_Witness ==
  /\ Completed
  /\ lastOp.op = "clear"
  /\ isConnected
  /\ pre.name = "Db"
  /\ pre.attr = "Db"
  /\ pre.dialogOpen
  /\ selectedNoteName = Null
  /\ attr = Null
  /\ ~dialogOpen
  /\ Len(events) = 1

\* C22: whenever the element is connected and no operation is in progress,
\* the main button shows the selected name and carries its note integer when
\* a note is selected, and shows the slot (the placeholder icon) with no
\* note integer when none is.
C22_MainButtonShowsSelection ==
  (Completed /\ isConnected) =>
     IF selectedNoteName # Null
     THEN /\ mainButtonTextShown
          /\ ~mainButtonSlotShown
          /\ mainButtonText = selectedNoteName
          /\ mainButtonNoteInteger = selectedNoteInteger
     ELSE /\ ~mainButtonTextShown
          /\ mainButtonSlotShown
          /\ mainButtonNoteInteger = NullInt

\* The element is connected after a note was assigned while it was detached:
\* the main button showed the placeholder and now shows the note.
C22_Witness ==
  /\ Completed
  /\ lastOp.op = "connect"
  /\ isConnected
  /\ pre.name = "Db"
  /\ ~pre.textShown
  /\ pre.slotShown
  /\ mainButtonTextShown
  /\ mainButtonText = "Db"
  /\ mainButtonNoteInteger = 1

\* The last operation was a connect or a change of root-notes-only.
Rendering ==
  \/ lastOp.op \in {"connect", "connectedCallback"}
  \/ /\ lastOp.op \in {"addRootNotesOnly", "removeRootNotesOnly"}
     /\ rootAttr # pre.rootAttr

\* C23: once the element was connected or root-notes-only was written, the
\* rendered note buttons are the active catalog: its groups in order, each
\* with its spellings in order (a button's group index is its group's
\* position); before that nothing is rendered.  So a pick that changes the
\* selection selects a note of the active catalog.
C23_ButtonsAreActiveCatalog ==
  /\ noteButtons \in {<<>>, ActiveGroups}
  /\ (Completed /\ (Rendering \/ isConnected \/ rootAttr # Null)) =>
       /\ noteButtons = ActiveGroups
       /\ Len(noteButtons) = Len(catalog.full)
  /\ (Completed /\ lastOp.op = "pick" /\ SelectionChanged) =>
       /\ selectedNoteName \in ActiveNotes
       /\ IsGroupOf(selectedNoteInteger, selectedNoteName)

\* root-notes-only is added to a connected element that showed the full
\* catalog: the list now shows the root notes.
C23_Witness ==
  /\ Completed
  /\ lastOp.op = "addRootNotesOnly"
  /\ isConnected
  /\ pre.rootAttr = Null
  /\ pre.noteButtons = catalog.full
  /\ noteButtons = catalog.root
  /\ catalog.root # catalog.full
  /\ Len(noteButtons) = NumGroups

\* C24 (as claimed): whenever the element is connected and no operation is
\* in progress, data-selected is on exactly the rendered button whose name is
\* selectedNoteName, when there is one, and on no button otherwise.
C24_HighlightOnSelectedButton ==
  (Completed /\ isConnected) =>
     dataSelected = IF Truthy(selectedNoteName)
                       /\ selectedNoteName \in NotesOf(noteButtons)
                    THEN {selectedNoteName}
                    ELSE {}

\* An assignment of the property, or a write or removal of the attribute.
ExternalChange ==
  lastOp.op \in {"assign", "setAttribute", "removeAttribute"}

\* C25: the setter is never nested more than two deep, whatever value is
\* assigned or written to the attribute (every operation is evaluated to its
\* end, so the cycle setter -> attribute -> callback -> setter ends), and one
\* assignment or attribute change dispatches at most one event.
C25_ReflectionEnds ==
  /\ setterDepth <= 2
  /\ (Completed /\ ExternalChange) => Len(events) <= 1

\* An assignment nests the setter two deep and dispatches one event.
C25_Witness ==
  /\ Completed
  /\ lastOp = [op |-> "assign", arg |-> "C#"]
  /\ isConnected
  /\ pre.name = "Db"
  /\ selectedNoteName = "C#"
  /\ attr = "C#"
  /\ setterDepth = 2
  /\ Len(events) = 1

\* C26: in every state selectedNoteName is null exactly when
\* selectedNoteInteger is null, and a selectedNoteInteger that is not null is
\* in 0..11.
C26_NameAndIntegerTogether ==
  /\ (selectedNoteName = Null) <=> (selectedNoteInteger = NullInt)
  /\ selectedNoteInteger # NullInt => selectedNoteInteger \in PitchIntegers

\* A name no catalog holds is assigned over a selection: both become null.
C26_Witness ==
  /\ Completed
  /\ lastOp = [op |-> "assign", arg |-> "H"]
  /\ pre.name = "C#"
  /\ pre.int = 1
  /\ selectedNoteName = Null
  /\ selectedNoteInteger = NullInt

\* Every group of the root catalog is part of the group of the full catalog
\* with the same index.
RootGroupsWithinFullGroups ==
  /\ Len(catalog.root) = Len(catalog.full)
  /\ \A i \in 1..Len(catalog.root) :
       Range(catalog.root[i]) \subseteq Range(catalog.full[i])

\* C27: with root groups within the full groups of the same index, a
\* selected name is always a spelling of the full-catalog group whose index
\* is selectedNoteInteger, also after root-notes-only changed; and an
\* operation that changes the selection leaves the index of the name's group
\* in the catalog active at that operation.
C27_IntegerIsGroupOfName ==
  RootGroupsWithinFullGroups =>
    /\ selectedNoteName # Null =>
         /\ selectedNoteInteger \in 0..(Len(catalog.full) - 1)
         /\ Includes(catalog.full[selectedNoteInteger + 1], selectedNoteName)
    /\ (Completed /\ SelectionChanged /\ selectedNoteName # Null) =>
         IsGroupOf(selectedNoteInteger, selectedNoteName)

\* root-notes-only is added while a spelling is selected that the root
\* catalog does not hold: it stays selected with its full-catalog group.
C27_Witness ==
  /\ Completed
  /\ lastOp.op = "addRootNotesOnly"
  /\ RootGroupsWithinFullGroups
  /\ selectedNoteName = "B#"
  /\ selectedNoteInteger = 0
  /\ "B#" \notin ActiveNotes
  /\ pre.name = "B#"

\* C28: connectedCallback, disconnectedCallback, the open gesture and the
\* close gesture change neither selectedNoteName nor selectedNoteInteger and
\* dispatch no event.
C28_LifecycleKeepsSelection ==
  (Completed /\ lastOp.op \in {"connect", "connectedCallback", "disconnect",
                               "open", "close"}) =>
     /\ selectedNoteName = pre.name
     /\ selectedNoteInteger = pre.int
     /\ events = <<>>

\* The element is connected after a note was written to the attribute while
\* it was detached: the note stays selected and nothing is dispatched.
C28_Witness ==
  /\ Completed
  /\ lastOp.op = "connect"
  /\ isConnected
  /\ ~pre.isConnected
  /\ pre.name = "C#"
  /\ pre.attr = "C#"
  /\ selectedNoteName = "C#"
  /\ selectedNoteInteger = 1
  /\ mainButtonText = "C#"
  /\ events = <<>>

TypeOK ==
  /\ selectedNoteName \in Names \cup {Null}
  /\ selectedNoteInteger \in 0..11 \cup {NullInt}
  /\ attr \in Names \cup {Null}
  /\ liveListeners \in 0..1
  /\ noteColorGroup \in {NoGroup} \cup { <<g>> : g \in ColorGroups }
  /\ DOMAIN noteColor = PitchIntegers
  /\ DOMAIN noteTextColor = PitchIntegers
  /\ noteButtonListeners \in 0..MaxConnects

====
